---------------------------- MODULE Spec2Model ----------------------------
(***************************************************************************)
(* Model of the page-count estimator of translator_app.py                  *)
(* (Translator.page_count and the estimate_*_a4_pages strategies) and of   *)
(* the Translate run that calls it.                                        *)
(*                                                                         *)
(* Lengths are exact: points are kept in hundredths of a point ("cpt"),    *)
(* so 12 * 1.2 pt is 1440 cpt, and a quotient is kept as numerator and     *)
(* denominator until math.ceil is taken.                                   *)
(***************************************************************************)
EXTENDS Integers, Sequences, FiniteSets, TLC

VARIABLES fn, file_bytes, extension, ret,
          pc, uploaded_files, uploaded_names, idx, calls, table_client, table, job

vars == <<fn, file_bytes, extension, ret,
          pc, uploaded_files, uploaded_names, idx, calls, table_client, table, job>>

estimatorVars == <<fn, file_bytes, extension, ret>>
workflowVars == <<pc, uploaded_files, uploaded_names, idx, calls, table_client, table, job>>

---------------------------------------------------------------------------
(* DOC-CONFIG                                                              *)

A4_WIDTH_PT == 595
A4_HEIGHT_PT == 842
DEFAULT_MARGIN_PT == 72
DEFAULT_FONT_SIZE_PT == 12
\* LINE_HEIGHT_FACTOR = 1.2, in tenths
LINE_HEIGHT_FACTOR_X10 == 12
AVG_CHARS_PER_LINE == 80
\* PARA_SPACING_LINES = 0.3, in tenths
PARA_SPACING_LINES_X10 == 3
TABLE_ROW_LINES == 1
\* TABLE_AFTER_SPACING_LINES = 0.5, in tenths
TABLE_AFTER_SPACING_LINES_X10 == 5
\* HEADER_FOOTER_LINES = 1.0, in tenths
HEADER_FOOTER_LINES_X10 == 10
EMU_PER_POINT == 12700

\* hundredths of a point in one point
CPT == 100

---------------------------------------------------------------------------
(* Arithmetic helpers                                                      *)

Max(a, b) == IF a >= b THEN a ELSE b
Min(a, b) == IF a <= b THEN a ELSE b

\* math.ceil(a / b) for a >= 0, b > 0
Ceil(a, b) == (a + b - 1) \div b

\* What a call returns: an integer, None, or a raised exception.
RetInt(v) == [kind |-> "int", val |-> v]
RetNone == [kind |-> "none", val |-> 0]
RetRaise == [kind |-> "raise", val |-> 0]

---------------------------------------------------------------------------
(* Plain text: estimate_txt_a4_pages                                       *)

\* Bounds of the text buffers: 1-byte characters, multi-byte characters,
\* and bytes that are not valid UTF-8.
MaxAscii == 3700
MaxMulti == 2
MaxBad == 1

\* What the bytes of a buffer hold, as bytes.
ByteStats == [ascii : 0..MaxAscii, multi : 0..MaxMulti, bad : 0..MaxBad]

\* A buffer is its bytes (raw) and the structure a parser finds in them
\* (parsed); no parser finds a structure in plain text.
TxtBuffers == [raw : ByteStats, parsed : {[kind |-> "text"]}]

\* len(file_bytes): a multi-byte character is taken as two bytes
ByteLen(buf) == buf.raw.ascii + 2 * buf.raw.multi + buf.raw.bad

\* len(file_bytes.decode("utf-8", errors="ignore")): the undecodable bytes
\* are dropped, every decoded character counts once
DecodedLen(buf) == buf.raw.ascii + buf.raw.multi

\* the character width factor 0.5 of char_width, in tenths
CHAR_WIDTH_FACTOR_X10 == 5

\* chars_per_page = chars_per_line * lines_per_page, as <<numerator, denominator>>
CharsPerPage ==
    LET printable_width == A4_WIDTH_PT - 2 * DEFAULT_MARGIN_PT
        printable_height == A4_HEIGHT_PT - 2 * DEFAULT_MARGIN_PT
        \* char_width and line_height in tenths of a point
        char_width_x10 == DEFAULT_FONT_SIZE_PT * CHAR_WIDTH_FACTOR_X10
        line_height_x10 == DEFAULT_FONT_SIZE_PT * LINE_HEIGHT_FACTOR_X10
    IN  <<(printable_width * 10) * (printable_height * 10),
          char_width_x10 * line_height_x10>>

TxtFloorPages(total_chars) ==
    Max(1, (total_chars * CharsPerPage[2]) \div CharsPerPage[1])

TxtPages(total_chars) ==
    LET estimated_pages == Ceil(total_chars * CharsPerPage[2], CharsPerPage[1])
    IN  Max(1, estimated_pages)

estimate_txt_a4_pages(buf) == RetInt(TxtPages(DecodedLen(buf)))

---------------------------------------------------------------------------
(* Spreadsheets: estimate_excel_a4_pages                                   *)

\* Bounds of the worksheets: the largest row and column a cell sits in,
\* the number of stored cells of a sheet, the number of sheets of a workbook.
MaxRow == 93
MaxCol == 15
MaxCells == 2
MaxSheets == 3

\* approx 64pt per column, approx 15pt per row
COL_WIDTH_PT == 64
ROW_HEIGHT_PT == 15

XlPrintableWidth == A4_WIDTH_PT - (2 * DEFAULT_MARGIN_PT)
XlPrintableHeight == A4_HEIGHT_PT - (2 * DEFAULT_MARGIN_PT)

\* The rows and columns cells are drawn from: those around the multiples of
\* the rows and columns that fit one printable page.
RowSamples == {r \in 1..MaxRow : r % (XlPrintableHeight \div ROW_HEIGHT_PT) <= 1}
ColSamples == {c \in 1..MaxCol : c % (XlPrintableWidth \div COL_WIDTH_PT) <= 1}

\* cell.value: None, a string, or a number
ValNone == [t |-> "none", v |-> ""]
CellValues == {ValNone, [t |-> "str", v |-> ""], [t |-> "str", v |-> "x"],
               [t |-> "num", v |-> "0"]}

Cells == [row : RowSamples, column : ColSamples, value : CellValues]

ValueCountsNoneOnly(v) == ~(v = ValNone)

\* cell.value not in (None, "")
ValueCounts(v) == ~(v = ValNone \/ (v.t = "str" /\ v.v = ""))

\* cell d comes after cell c in the order of iter_rows (row by row)
After(c, d) == c.row < d.row \/ (c.row = d.row /\ c.column < d.column)

\* The stored cells of a worksheet, in the order iter_rows yields them;
\* iter_rows yields None for the cells that are not stored.
RECURSIVE CellSeqs(_)
CellSeqs(k) ==
    IF k = 0 THEN {<<>>}
    ELSE LET prev == CellSeqs(k - 1)
         IN  prev \cup
             {Append(p[1], p[2]) :
                p \in {pp \in prev \X Cells :
                         pp[1] = <<>> \/ After(pp[1][Len(pp[1])], pp[2])}}

Sheets == CellSeqs(MaxCells)

\* The running min_row, max_row, min_col, max_col; 0 stands for None.
NoRange == [min_row |-> 0, max_row |-> 0, min_col |-> 0, max_col |-> 0]

RECURSIVE ScanCells(_, _)
ScanCells(cells, rng) ==
    IF cells = <<>> THEN rng
    ELSE LET cell == Head(cells)
             r == cell.row
             c == cell.column
             next ==
                 IF ValueCounts(cell.value)
                 THEN [min_row |-> IF rng.min_row = 0 THEN r ELSE Min(rng.min_row, r),
                       max_row |-> IF rng.max_row = 0 THEN r ELSE Max(rng.max_row, r),
                       min_col |-> IF rng.min_col = 0 THEN c ELSE Min(rng.min_col, c),
                       max_col |-> IF rng.max_col = 0 THEN c ELSE Max(rng.max_col, c)]
                 ELSE rng
         IN  ScanCells(Tail(cells), next)

SheetPagesNoTiling(sheet) ==
    LET rng == ScanCells(sheet, NoRange)
    IN  IF rng.min_row = 0 THEN 1
        ELSE Max(1, Max(Ceil((rng.max_col - rng.min_col + 1) * COL_WIDTH_PT, XlPrintableWidth),
                        Ceil((rng.max_row - rng.min_row + 1) * ROW_HEIGHT_PT, XlPrintableHeight)))

\* What one worksheet adds to total_pages.
SheetPages(sheet) ==
    LET rng == ScanCells(sheet, NoRange)
    IN  IF rng.min_row = 0 THEN 1
        ELSE LET used_cols == rng.max_col - rng.min_col + 1
                 used_rows == rng.max_row - rng.min_row + 1
                 total_width == used_cols * COL_WIDTH_PT
                 total_height == used_rows * ROW_HEIGHT_PT
                 width_pages == Ceil(total_width, XlPrintableWidth)
                 height_pages == Ceil(total_height, XlPrintableHeight)
             IN  Max(1, width_pages * height_pages)

RECURSIVE SumSheets(_, _)
SumSheets(worksheets, total_pages) ==
    IF worksheets = <<>> THEN total_pages
    ELSE SumSheets(Tail(worksheets), total_pages + SheetPages(Head(worksheets)))

\* bytes of a zip container: "PK" and binary data
ZipRaw == [ascii |-> 2, multi |-> 0, bad |-> 1]

\* The sheets the workbooks of several sheets are made of.
SampleSheets ==
    LET x == [t |-> "str", v |-> "x"]
        first == [row |-> 1, column |-> 1, value |-> x]
    IN  { <<>>,
          <<[row |-> 1, column |-> 1, value |-> [t |-> "str", v |-> ""]]>>,
          <<first>>,
          <<first, [row |-> 47, column |-> 8, value |-> x]>> }

RECURSIVE SeqsUpTo(_, _)
SeqsUpTo(S, k) ==
    IF k = 0 THEN {<<>>}
    ELSE LET prev == SeqsUpTo(S, k - 1)
         IN  prev \cup {Append(q, x) : q \in prev, x \in S}

Workbooks ==
    [raw : {ZipRaw},
     parsed : [kind : {"xlsx"},
               worksheets : {<<s>> : s \in Sheets} \cup SeqsUpTo(SampleSheets, MaxSheets)]]

\* load_workbook raises on bytes that hold no workbook
estimate_excel_a4_pages(buf) ==
    IF buf.parsed.kind # "xlsx" THEN RetRaise
    ELSE RetInt(SumSheets(buf.parsed.worksheets, 0))

---------------------------------------------------------------------------
(* DOCX: estimate_docx_a4_pages                                            *)

\* Bounds of the documents: page-break markers in one paragraph, wrapped
\* lines of the longest paragraph, rows of the longest table, body elements
\* (paragraphs, tables, inline images) of a document.
MaxBreaks == 2
MaxLines == 50
MaxTableRows == 50
MaxElems == 2

\* A length-like value: None, a python-docx Length (EMU, with .pt), or a
\* plain number without .pt.
LenNone == [t |-> "none", n |-> 0]
LenEmu(emu) == [t |-> "length", n |-> emu]
LenNum(v) == [t |-> "num", n |-> v]

\* the magnitude above which a plain number is taken as EMU
EMU_THRESHOLD == 10000

\* _to_points_len, in cpt: obj.pt of a Length; a plain number as EMU above
\* the threshold and as points below; 0.0 for anything else.
to_points_len(obj) ==
    IF obj.t = "length" THEN (obj.n * CPT) \div EMU_PER_POINT
    ELSE IF obj.t = "num"
         THEN IF obj.n > EMU_THRESHOLD THEN (obj.n * CPT) \div EMU_PER_POINT
              ELSE obj.n * CPT
         ELSE 0

\* line_height = DEFAULT_FONT_SIZE_PT * LINE_HEIGHT_FACTOR, in cpt
LineHeight == (DEFAULT_FONT_SIZE_PT * LINE_HEIGHT_FACTOR_X10 * CPT) \div 10

\* EMU of the A4 and Letter page heights and of 1 inch and 1/2 inch
EMU_A4_HEIGHT == 10692130
EMU_LETTER_HEIGHT == 10058400
EMU_INCH == 914400
EMU_HALF_INCH == 457200

PageHeights == {LenNone, LenEmu(EMU_A4_HEIGHT), LenEmu(EMU_LETTER_HEIGHT)}
Margins == {LenNone, LenEmu(EMU_INCH), LenEmu(EMU_HALF_INCH)}

\* A header or footer: no text, some text, or reading it raises.
HeaderFooterStates == {"empty", "text", "raises"}

\* doc.sections[0]: absent (IndexError), or a section whose geometry can
\* (readable) or cannot be read.
SectionAbsent ==
    [present |-> FALSE, readable |-> FALSE, page_height |-> LenNone,
     top_margin |-> LenNone, bottom_margin |-> LenNone,
     header |-> "empty", footer |-> "empty"]

A4Section ==
    [present |-> TRUE, readable |-> TRUE, page_height |-> LenEmu(EMU_A4_HEIGHT),
     top_margin |-> LenEmu(EMU_INCH), bottom_margin |-> LenEmu(EMU_INCH),
     header |-> "empty", footer |-> "empty"]

Sections ==
    {SectionAbsent} \cup
    [present : {TRUE}, readable : BOOLEAN, page_height : PageHeights,
     top_margin : Margins, bottom_margin : Margins,
     header : HeaderFooterStates, footer : HeaderFooterStates]

BasicSections == {SectionAbsent, A4Section}

\* printable_height, in cpt (lines 193-200)
PrintableHeight(section) ==
    IF section.present /\ section.readable
    THEN LET page_height_pt == to_points_len(section.page_height)
             top_margin_pt == to_points_len(section.top_margin)
             bottom_margin_pt == to_points_len(section.bottom_margin)
         IN  Max(1 * CPT, page_height_pt - (top_margin_pt + bottom_margin_pt))
    ELSE (A4_HEIGHT_PT - (2 * DEFAULT_MARGIN_PT)) * CPT

\* The lengths of the stripped text of the paragraphs drawn.
BodyLens ==
    {0, 1, AVG_CHARS_PER_LINE, AVG_CHARS_PER_LINE + 1, MaxLines * AVG_CHARS_PER_LINE}

\* A paragraph: the <w:br w:type="page"/> markers in its XML, its text as
\* body characters (starting and ending with a non-whitespace character)
\* with or without a whitespace character on either side (padded), and
\* whether its XML can be read.
Paragraphs ==
    [breaks : 0..MaxBreaks, padded : BOOLEAN, body : BodyLens, readable : {TRUE}]
    \cup [breaks : {0}, padded : {FALSE}, body : {0}, readable : {FALSE}]

\* len(para.text)
TextLen(para) == para.body + (IF para.padded THEN 2 ELSE 0)

\* len((para.text or "").strip())
StrippedLen(para) == para.body

\* _has_page_break: len(p.xpath('.//w:br[@w:type="page"]')) > 0
has_page_break(paragraph) == paragraph.breaks > 0

ParagraphHeightNoStrip(para) ==
    LET char_count == TextLen(para)
    IN  IF char_count = 0 THEN LineHeight
        ELSE LET wrapped_lines == Max(1, Ceil(char_count, AVG_CHARS_PER_LINE))
             IN  wrapped_lines * LineHeight
                 + (PARA_SPACING_LINES_X10 * LineHeight) \div 10

\* What one paragraph adds to total_height_pt (lines 211-222)
ParagraphHeight(para) ==
    LET char_count == StrippedLen(para)
    IN  IF char_count = 0 THEN LineHeight
        ELSE LET wrapped_lines == Max(1, Ceil(char_count, AVG_CHARS_PER_LINE))
             IN  wrapped_lines * LineHeight
                 + (PARA_SPACING_LINES_X10 * LineHeight) \div 10

\* The running total_height_pt and explicit_page_breaks; raised when reading
\* a paragraph raised (nothing in the loop catches it).
RECURSIVE ParagraphLoop(_, _)
ParagraphLoop(paragraphs, acc) ==
    IF paragraphs = <<>> THEN acc
    ELSE LET para == Head(paragraphs)
         IN  IF ~para.readable
             THEN [acc EXCEPT !.raised = TRUE]
             ELSE ParagraphLoop(Tail(paragraphs),
                    [total_height_pt |-> acc.total_height_pt + ParagraphHeight(para),
                     explicit_page_breaks |->
                         acc.explicit_page_breaks + (IF has_page_break(para) THEN 1 ELSE 0),
                     raised |-> FALSE])

\* 2) TABLES: row_count lines and the spacing after a table with rows
RECURSIVE TablesHeight(_)
TablesHeight(tables) ==
    IF tables = <<>> THEN 0
    ELSE LET row_count == Head(tables)
         IN  (IF row_count > 0
              THEN row_count * (TABLE_ROW_LINES * LineHeight)
                   + (TABLE_AFTER_SPACING_LINES_X10 * LineHeight) \div 10
              ELSE 0)
             + TablesHeight(Tail(tables))

\* the fallback height of an image, in points
IMAGE_FALLBACK_PT == 150

\* 3) IMAGES: the height of each inline shape and half a line
RECURSIVE ImagesHeight(_)
ImagesHeight(inline_shapes) ==
    IF inline_shapes = <<>> THEN 0
    ELSE LET h == to_points_len(Head(inline_shapes))
             h_pt == IF h <= 0 THEN IMAGE_FALLBACK_PT * CPT ELSE h
         IN  h_pt + (5 * LineHeight) \div 10 + ImagesHeight(Tail(inline_shapes))

\* Header and footer of the first section (lines 240-248): section is not
\* bound when doc.sections[0] raised, and any failure adds nothing more.
HeaderFooterHeight(section) ==
    IF ~section.present \/ section.header = "raises" \/ section.footer = "raises"
    THEN 0
    ELSE (IF section.header = "text"
          THEN (HEADER_FOOTER_LINES_X10 * LineHeight) \div 10 ELSE 0)
         + (IF section.footer = "text"
            THEN (HEADER_FOOTER_LINES_X10 * LineHeight) \div 10 ELSE 0)

DocxPagesBreaksDropped(total_height_pt, printable_height, explicit_page_breaks) ==
    Max(1, Ceil(Max(1 * CPT, total_height_pt), printable_height))

\* 5) Convert accumulated height to pages (lines 250-257)
DocxPages(total_height_pt, printable_height, explicit_page_breaks) ==
    LET content_pages == Ceil(Max(1 * CPT, total_height_pt), printable_height)
        pages == content_pages + explicit_page_breaks
    IN  Max(1, pages)

\* total_height_pt after the paragraphs, tables, images, header and footer
TotalHeight(doc) ==
    ParagraphLoop(doc.paragraphs,
                  [total_height_pt |-> 0, explicit_page_breaks |-> 0,
                   raised |-> FALSE]).total_height_pt
    + TablesHeight(doc.tables)
    + ImagesHeight(doc.inline_shapes)
    + HeaderFooterHeight(doc.section)

\* explicit_page_breaks after the paragraphs
ExplicitPageBreaks(doc) ==
    ParagraphLoop(doc.paragraphs,
                  [total_height_pt |-> 0, explicit_page_breaks |-> 0,
                   raised |-> FALSE]).explicit_page_breaks

\* Document(BytesIO(docx_bytes)) raises on bytes that hold no document.
estimate_docx_a4_pages(buf) ==
    IF buf.parsed.kind # "docx" THEN RetRaise
    ELSE LET doc == buf.parsed
             after == ParagraphLoop(doc.paragraphs,
                        [total_height_pt |-> 0, explicit_page_breaks |-> 0,
                         raised |-> FALSE])
         IN  IF after.raised THEN RetRaise
             ELSE RetInt(DocxPages(TotalHeight(doc),
                                   PrintableHeight(doc.section),
                                   ExplicitPageBreaks(doc)))

\* The heights of the inline images drawn.
ImageHeights ==
    {LenNone, LenEmu(2 * EMU_INCH), LenEmu(10 * EMU_INCH), LenNum(2 * EMU_INCH)}

\* The row counts of the tables drawn.
TableRowCounts == {0, 1, MaxTableRows}

RECURSIVE SeqsOfLen(_, _)
SeqsOfLen(S, k) ==
    IF k = 0 THEN {<<>>}
    ELSE {Append(p[1], p[2]) : p \in SeqsOfLen(S, k - 1) \X S}

\* The bodies of at most k elements.
Bodies(k) ==
    UNION { [paragraphs : SeqsOfLen(Paragraphs, n[1]),
             tables : SeqsOfLen(TableRowCounts, n[2]),
             inline_shapes : SeqsOfLen(ImageHeights, n[3])]
            : n \in {m \in (0..k) \X (0..k) \X (0..k) : m[1] + m[2] + m[3] <= k} }

DocOf(body, section) ==
    [kind |-> "docx", section |-> section, paragraphs |-> body.paragraphs,
     tables |-> body.tables, inline_shapes |-> body.inline_shapes]

\* The documents drawn: every section with a body of at most one element,
\* and the basic sections with a body of at most MaxElems elements.
Docs ==
    [raw : {ZipRaw},
     parsed : {DocOf(p[1], p[2]) :
                 p \in (Bodies(1) \X Sections)
                       \cup (Bodies(MaxElems) \X BasicSections)}]

---------------------------------------------------------------------------
(* The dispatcher: page_count                                              *)

\* Bounds: pages of a PDF, slides of a presentation, frames of an image.
MaxPages == 2

\* An extension is a sequence of characters.
UpperCase == <<"A", "B", "C", "D", "E", "F", "G", "H", "I", "J", "K", "L", "M",
               "N", "O", "P", "Q", "R", "S", "T", "U", "V", "W", "X", "Y", "Z">>
LowerCase == <<"a", "b", "c", "d", "e", "f", "g", "h", "i", "j", "k", "l", "m",
               "n", "o", "p", "q", "r", "s", "t", "u", "v", "w", "x", "y", "z">>

\* str.lower() of one character
LowerChar(ch) ==
    IF \E i \in 1..Len(UpperCase) : UpperCase[i] = ch
    THEN LowerCase[CHOOSE i \in 1..Len(UpperCase) : UpperCase[i] = ch]
    ELSE ch

UpperChar(ch) ==
    IF \E i \in 1..Len(LowerCase) : LowerCase[i] = ch
    THEN UpperCase[CHOOSE i \in 1..Len(LowerCase) : LowerCase[i] = ch]
    ELSE ch

AsWritten(e) == e

\* extension.lower()
Lower(e) == [i \in 1..Len(e) |-> LowerChar(e[i])]

EXT_PDF == <<".", "p", "d", "f">>
EXT_PPTX == <<".", "p", "p", "t", "x">>
EXT_DOCX == <<".", "d", "o", "c", "x">>
EXT_TXT == <<".", "t", "x", "t">>
EXT_XLSX == <<".", "x", "l", "s", "x">>
ImageExts ==
    {<<".", "p", "n", "g">>, <<".", "j", "p", "g">>, <<".", "j", "p", "e", "g">>,
     <<".", "b", "m", "p">>, <<".", "t", "i", "f", "f">>, <<".", "g", "i", "f">>}

\* bytes of a binary file: a few printable bytes among undecodable ones
BinRaw == [ascii |-> 4, multi |-> 0, bad |-> 1]

\* PdfReader(...).pages, Presentation(...).slides, Image.open(...): each
\* raises on bytes that hold no such file.
PdfBuffers == [raw : {BinRaw}, parsed : [kind : {"pdf"}, pages : 0..MaxPages]]
PptxBuffers == [raw : {ZipRaw}, parsed : [kind : {"pptx"}, slides : 0..MaxPages]]
\* an image with the n_frames attribute (n_frames >= 1) or without it
ImageBuffers ==
    [raw : {BinRaw},
     parsed : [kind : {"image"}, has_n_frames : BOOLEAN, n_frames : 1..MaxPages]]
\* bytes no parser accepts (a truncated PDF, a damaged archive)
CorruptBuffers == [raw : {BinRaw}, parsed : {[kind |-> "corrupt"]}]

\* What the strategy selected by the normalized extension returns or raises.
Strategy(buf, ext) ==
    IF ext = EXT_PDF
    THEN IF buf.parsed.kind = "pdf" THEN RetInt(buf.parsed.pages) ELSE RetRaise
    ELSE IF ext = EXT_PPTX
    THEN IF buf.parsed.kind = "pptx" THEN RetInt(buf.parsed.slides) ELSE RetRaise
    ELSE IF ext = EXT_DOCX THEN estimate_docx_a4_pages(buf)
    ELSE IF ext = EXT_TXT THEN estimate_txt_a4_pages(buf)
    ELSE IF ext \in ImageExts
    THEN IF buf.parsed.kind = "image"
         THEN RetInt(IF buf.parsed.has_n_frames THEN buf.parsed.n_frames ELSE 1)
         ELSE RetRaise
    ELSE IF ext = EXT_XLSX THEN estimate_excel_a4_pages(buf)
    ELSE RetNone

Propagate(r) == r

\* except Exception: return None
CatchAll(r) == IF r.kind = "raise" THEN RetNone ELSE r

\* ext = extension.lower()
Normalize(e) == Lower(e)

page_count(buf, e) == CatchAll(Strategy(buf, Normalize(e)))

\* The spellings of an extension in upper and lower case letters.
RECURSIVE CaseVariants(_)
CaseVariants(e) ==
    IF e = <<>> THEN {<<>>}
    ELSE {<<p[1]>> \o p[2] :
            p \in {LowerChar(Head(e)), UpperChar(Head(e))} \X CaseVariants(Tail(e))}

RecognizedExts == {EXT_PDF, EXT_PPTX, EXT_DOCX, EXT_TXT, EXT_XLSX} \cup ImageExts
OtherExts ==
    {<<>>, <<".", "x", "y", "z">>, <<".", "h", "t", "m", "l">>, <<"p", "d", "f">>,
     <<".", "d", "o", "c">>}

Exts == UNION {CaseVariants(e) : e \in RecognizedExts \cup OtherExts}

\* The buffers every extension is tried on.
SampleBuffers ==
    PdfBuffers \cup PptxBuffers \cup ImageBuffers \cup CorruptBuffers
    \cup [raw : [ascii : {0, 1}, multi : {0}, bad : {0, 1}], parsed : {[kind |-> "text"]}]
    \cup [raw : {ZipRaw},
          parsed : {DocOf(p[1], p[2]) : p \in Bodies(0) \X BasicSections}]
    \cup [raw : {ZipRaw},
          parsed : [kind : {"xlsx"}, worksheets : SeqsUpTo(SampleSheets, 1)]]

\* The documents, workbooks and texts tried under their own extension.
DocSamples ==
    [raw : {ZipRaw},
     parsed : {DocOf(p[1], p[2]) : p \in Bodies(1) \X BasicSections}]
WorkbookSamples ==
    [raw : {ZipRaw},
     parsed : [kind : {"xlsx"}, worksheets : SeqsUpTo(SampleSheets, MaxSheets)]]
TxtSamples ==
    [raw : [ascii : {0, 1, MaxAscii}, multi : 0..MaxMulti, bad : 0..MaxBad],
     parsed : {[kind |-> "text"]}]

\* The calls of page_count drawn.
PageCountCalls ==
    (SampleBuffers \X Exts)
    \cup (DocSamples \X CaseVariants(EXT_DOCX))
    \cup (WorkbookSamples \X CaseVariants(EXT_XLSX))
    \cup (TxtSamples \X CaseVariants(EXT_TXT))

---------------------------------------------------------------------------
(* Specification of the estimator: each call draws an input.              *)

NoBuffer == [raw |-> [ascii |-> 0, multi |-> 0, bad |-> 0], parsed |-> [kind |-> "none"]]

InitWorkflow ==
    /\ pc = "idle"
    /\ uploaded_files = <<>>
    /\ uploaded_names = <<>>
    /\ idx = 0
    /\ calls = <<>>
    /\ table_client = TRUE
    /\ table = <<>>
    /\ job = "none"

Init ==
    /\ fn = "none"
    /\ file_bytes = NoBuffer
    /\ extension = <<>>
    /\ ret = RetNone
    /\ InitWorkflow

\* The caller takes the returned value; the estimator keeps no state.
Return ==
    /\ fn # "none"
    /\ fn' = "none"
    /\ file_bytes' = NoBuffer
    /\ extension' = <<>>
    /\ ret' = RetNone
    /\ UNCHANGED workflowVars

CallEstimateTxt ==
    /\ fn = "none"
    /\ pc = "idle"
    /\ \E buf \in TxtBuffers :
        /\ fn' = "estimate_txt_a4_pages"
        /\ file_bytes' = buf
        /\ extension' = <<>>
        /\ ret' = estimate_txt_a4_pages(buf)
        /\ UNCHANGED workflowVars

CallEstimateExcel ==
    /\ fn = "none"
    /\ pc = "idle"
    /\ \E buf \in Workbooks :
        /\ fn' = "estimate_excel_a4_pages"
        /\ file_bytes' = buf
        /\ extension' = <<>>
        /\ ret' = estimate_excel_a4_pages(buf)
        /\ UNCHANGED workflowVars

CallEstimateDocx ==
    /\ fn = "none"
    /\ pc = "idle"
    /\ \E buf \in Docs :
        /\ fn' = "estimate_docx_a4_pages"
        /\ file_bytes' = buf
        /\ extension' = <<>>
        /\ ret' = estimate_docx_a4_pages(buf)
        /\ UNCHANGED workflowVars

CallPageCount ==
    /\ fn = "none"
    /\ pc = "idle"
    /\ \E call \in PageCountCalls :
        /\ fn' = "page_count"
        /\ file_bytes' = call[1]
        /\ extension' = call[2]
        /\ ret' = page_count(call[1], call[2])
        /\ UNCHANGED workflowVars

Next ==
    \/ CallPageCount
    \/ CallEstimateTxt
    \/ CallEstimateDocx
    \/ CallEstimateExcel
    \/ Return

Spec == Init /\ [][Next]_vars

---------------------------------------------------------------------------
(* The Translate run (lines 506-595)                                       *)

\* Bound: the files of one run.
MaxFiles == 2

\* An uploaded file: the part of its name after the last dot, as the user
\* wrote it, and its bytes.
WorkflowFiles ==
    {[suffix |-> <<"p", "d", "f">>,
      bytes |-> [raw |-> BinRaw, parsed |-> [kind |-> "pdf", pages |-> 2]]],
     [suffix |-> <<"P", "D", "F">>,
      bytes |-> [raw |-> BinRaw, parsed |-> [kind |-> "corrupt"]]],
     [suffix |-> <<"h", "t", "m", "l">>,
      bytes |-> [raw |-> [ascii |-> 1, multi |-> 0, bad |-> 0], parsed |-> [kind |-> "text"]]],
     [suffix |-> <<"t", "x", "t">>,
      bytes |-> [raw |-> [ascii |-> 1, multi |-> 0, bad |-> 0], parsed |-> [kind |-> "text"]]],
     [suffix |-> <<"x", "l", "s", "x">>,
      bytes |-> [raw |-> ZipRaw, parsed |-> [kind |-> "xlsx", worksheets |-> << <<>> >>]]]}

\* extension = "." + f.name.lower().split(".")[-1]
ExtensionOf(f) == <<".">> \o Lower(f.suffix)

\* The indexes in 1..n that are in ok, in increasing order.
RECURSIVE Kept(_, _)
Kept(n, ok) ==
    IF n = 0 THEN <<>>
    ELSE IF n \in ok THEN Append(Kept(n - 1, ok), n) ELSE Kept(n - 1, ok)

\* len(list(zip(uploaded_files, uploaded_names)))
ZipLen == Min(Len(uploaded_files), Len(uploaded_names))

\* Translate is pressed with files in the uploader; the script has built
\* its Translator (table_init gives no client when it fails) and
\* upload_files has run: the blob name of every file whose upload did not
\* fail is appended, in the order of the files (lines 102-120, 506-511).
TranslateClicked ==
    /\ pc = "idle"
    /\ fn = "none"
    /\ \E files \in SeqsUpTo(WorkflowFiles, MaxFiles) \ {<<>>} :
       \E ok \in SUBSET (1..Len(files)) :
       \E tc \in BOOLEAN :
        /\ uploaded_files' = files
        /\ uploaded_names' = Kept(Len(files), ok)
        /\ table_client' = tc
    /\ pc' = "count"
    /\ idx' = 1
    /\ calls' = <<>>
    /\ table' = <<>>
    /\ job' = "none"
    /\ UNCHANGED estimatorVars

\* One round of the loop over zip(uploaded_files, uploaded_names)
\* (lines 513-536): page_count of the file, then its metadata record.
CountPages ==
    /\ pc = "count"
    /\ idx <= ZipLen
    /\ LET f == uploaded_files[idx]
           blob_name == uploaded_names[idx]
           page_count_result == page_count(f.bytes, ExtensionOf(f))
       IN  /\ calls' = Append(calls, [file |-> idx, result |-> page_count_result])
           /\ table' = IF table_client
                       THEN Append(table, [original_name |-> idx, blob_name |-> blob_name,
                                           page_count |-> page_count_result,
                                           status |-> "Uploaded"])
                       ELSE table
    /\ idx' = idx + 1
    /\ UNCHANGED <<pc, uploaded_files, uploaded_names, table_client, job>>
    /\ UNCHANGED estimatorVars

\* poller = client.translate(target_language) (line 540): the job starts,
\* or begin_translation fails and translate raises RuntimeError.
StartTranslation ==
    /\ pc = "count"
    /\ idx > ZipLen
    /\ \E started \in BOOLEAN :
        /\ job' = IF started THEN "started" ELSE "failed"
        /\ pc' = IF started THEN "translating" ELSE "stopped"
    /\ UNCHANGED <<uploaded_files, uploaded_names, idx, calls, table_client, table>>
    /\ UNCHANGED estimatorVars

\* The job is polled to its end and every row is marked (lines 544-581);
\* update_entity is called on table_client without the check of line 524.
TranslationDone ==
    /\ pc = "translating"
    /\ IF ~table_client /\ calls # <<>>
       THEN /\ pc' = "stopped"
            /\ table' = table
       ELSE /\ pc' = "done"
            /\ table' = [i \in 1..Len(table) |-> [table[i] EXCEPT !.status = "Translated"]]
    /\ UNCHANGED <<uploaded_files, uploaded_names, idx, calls, table_client, job>>
    /\ UNCHANGED estimatorVars

\* The next interaction reruns the script.
Rerun ==
    /\ pc \in {"done", "stopped"}
    /\ pc' = "idle"
    /\ uploaded_files' = <<>>
    /\ uploaded_names' = <<>>
    /\ idx' = 0
    /\ calls' = <<>>
    /\ table_client' = TRUE
    /\ table' = <<>>
    /\ job' = "none"
    /\ UNCHANGED estimatorVars

WorkflowNext ==
    \/ TranslateClicked
    \/ CountPages
    \/ StartTranslation
    \/ TranslationDone
    \/ Rerun

WorkflowSpec == Init /\ [][WorkflowNext]_vars

---------------------------------------------------------------------------
(* Properties                                                              *)

\* k = ceiling(a / b), said without the model's Ceil: k is the least
\* integer with k * b >= a (a >= 0, b > 0).
IsCeiling(k, a, b) == k * b >= a /\ (k - 1) * b < a

\* C4: for plain text with n decoded characters estimate_txt_a4_pages returns
\* max(1, ceiling(n / C)), C = (451 / 6) * (698 / 14.4) = 3147980 / 864:
\* n = 0 gives 1, every n <= 3643 gives 1, n = 3644 gives 2.
C4_TxtCeiling ==
    fn = "estimate_txt_a4_pages" =>
        LET n == file_bytes.raw.ascii + file_bytes.raw.multi
        IN  /\ ret.kind = "int"
            /\ \E k \in {0, ret.val} :
                   /\ IsCeiling(k, n * 864, 3147980)
                   /\ ret.val = IF k >= 1 THEN k ELSE 1
            /\ (n = 0 => ret.val = 1)
            /\ (n <= 3643 => ret.val = 1)
            /\ (n = 3644 => ret.val = 2)

\* A text of 3644 decoded characters, some of them multi-byte and with an
\* undecodable byte, was estimated at 2 pages.
C4_Witness ==
    /\ fn = "estimate_txt_a4_pages"
    /\ file_bytes.raw.ascii + file_bytes.raw.multi = 3644
    /\ file_bytes.raw.multi > 0
    /\ file_bytes.raw.bad > 0
    /\ ret = RetInt(2)

\* The cells of a sheet whose value is neither absent nor an empty string.
NonEmptyCells(sheet) ==
    {c \in {sheet[i] : i \in 1..Len(sheet)} :
        c.value.t # "none" /\ c.value # [t |-> "str", v |-> ""]}

\* C5: a workbook in which every cell of every worksheet is absent or an
\* empty string is estimated at exactly its number of worksheets.
C5_EmptyWorkbook ==
    (/\ fn = "estimate_excel_a4_pages"
     /\ \A i \in 1..Len(file_bytes.parsed.worksheets) :
            NonEmptyCells(file_bytes.parsed.worksheets[i]) = {})
    => ret = RetInt(Len(file_bytes.parsed.worksheets))

\* Three worksheets, one of them with stored empty-string cells only, were
\* estimated at 3 pages.
C5_Witness ==
    /\ fn = "estimate_excel_a4_pages"
    /\ Len(file_bytes.parsed.worksheets) = 3
    /\ \A i \in 1..3 : NonEmptyCells(file_bytes.parsed.worksheets[i]) = {}
    /\ \E i \in 1..3 : file_bytes.parsed.worksheets[i] # <<>>
    /\ ret = RetInt(3)

\* The columns and rows the used range of a sheet spans.
UsedCols(sheet) ==
    LET cols == {c.column : c \in NonEmptyCells(sheet)}
    IN  (CHOOSE hi \in cols : \A x \in cols : x <= hi)
        - (CHOOSE lo \in cols : \A x \in cols : lo <= x) + 1

UsedRows(sheet) ==
    LET rows == {c.row : c \in NonEmptyCells(sheet)}
    IN  (CHOOSE hi \in rows : \A x \in rows : x <= hi)
        - (CHOOSE lo \in rows : \A x \in rows : lo <= x) + 1

\* A sheet contributes p pages: 1 when it has no non-empty cell, else
\* max(1, ceiling(64 * c / 451) * ceiling(15 * r / 698)).
Contributes(sheet, p) ==
    IF NonEmptyCells(sheet) = {} THEN p = 1
    ELSE LET c == UsedCols(sheet)
             r == UsedRows(sheet)
         IN  \E w \in 1..c :
                 /\ IsCeiling(w, 64 * c, 451)
                 /\ \E h \in 1..r :
                        /\ IsCeiling(h, 15 * r, 698)
                        /\ p = IF w * h >= 1 THEN w * h ELSE 1

\* The largest contribution of a sheet of the model
MaxContribution == (MaxCol + 1) * (MaxRow + 1)

RECURSIVE SumsTo(_, _)
SumsTo(worksheets, total) ==
    IF worksheets = <<>> THEN total = 0
    ELSE \E p \in 1..Min(total, MaxContribution) :
             /\ Contributes(Head(worksheets), p)
             /\ SumsTo(Tail(worksheets), total - p)

\* C6: a worksheet with a non-empty cell whose used range spans c columns and
\* r rows contributes max(1, ceiling(64c / 451) * ceiling(15r / 698)) pages, the
\* workbook result is the sum of the contributions of its sheets, and a used
\* range 2 printable widths wide and 1 printable height tall contributes 2.
C6_UsedRangeTiling ==
    fn = "estimate_excel_a4_pages" =>
        /\ ret.kind = "int"
        /\ SumsTo(file_bytes.parsed.worksheets, ret.val)
        /\ \A i \in 1..Len(file_bytes.parsed.worksheets) :
               LET sheet == file_bytes.parsed.worksheets[i]
               IN  (/\ NonEmptyCells(sheet) # {}
                    /\ Len(file_bytes.parsed.worksheets) = 1
                    /\ 64 * UsedCols(sheet) > 451
                    /\ 64 * UsedCols(sheet) <= 2 * 451
                    /\ 15 * UsedRows(sheet) <= 698)
                   => ret.val = 2

\* One sheet whose used range is 14 columns by 46 rows (896pt by 690pt) was
\* estimated at 2 pages.
C6_Witness ==
    /\ fn = "estimate_excel_a4_pages"
    /\ Len(file_bytes.parsed.worksheets) = 1
    /\ NonEmptyCells(file_bytes.parsed.worksheets[1]) # {}
    /\ UsedCols(file_bytes.parsed.worksheets[1]) = 14
    /\ UsedRows(file_bytes.parsed.worksheets[1]) = 46
    /\ ret = RetInt(2)

\* The extensions page_count supports, in lower case.
SupportedLower ==
    {<<".", "p", "d", "f">>, <<".", "p", "p", "t", "x">>, <<".", "d", "o", "c", "x">>,
     <<".", "t", "x", "t">>, <<".", "x", "l", "s", "x">>, <<".", "p", "n", "g">>,
     <<".", "j", "p", "g">>, <<".", "j", "p", "e", "g">>, <<".", "b", "m", "p">>,
     <<".", "t", "i", "f", "f">>, <<".", "g", "i", "f">>}

\* C1: for every buffer and every supported extension page_count returns
\* None or an integer >= 1, never 0 or a negative number, also for a PDF
\* with zero pages, a presentation with zero slides or a workbook without
\* content.
C1_NoneOrPositive ==
    (fn = "page_count" /\ extension \in SupportedLower)
    => (ret.kind = "none" \/ (ret.kind = "int" /\ ret.val >= 1))

\* C2: page_count never lets a failure reach its caller: an extension that
\* is not recognized, or a selected strategy that raises, gives None.
C2_NeverRaises ==
    fn = "page_count" =>
        /\ ret.kind # "raise"
        /\ (\A e \in SupportedLower : ~(Len(e) = Len(extension)
                /\ \A i \in 1..Len(e) : e[i] \in {extension[i], LowerChar(extension[i])}))
           => ret = RetNone
        /\ Strategy(file_bytes, Lower(extension)).kind = "raise" => ret = RetNone
        /\ (file_bytes.parsed.kind = "corrupt" /\ extension = <<".", "p", "d", "f">>)
           => ret = RetNone

\* A truncated PDF was given to page_count as .pdf and None came back.
C2_Witness ==
    /\ fn = "page_count"
    /\ file_bytes.parsed.kind = "corrupt"
    /\ extension = <<".", "p", "d", "f">>
    /\ ret = RetNone

\* C3: dispatch is case-insensitive in the extension: page_count gives the
\* same result for two extensions that differ only in letter case.
C3_CaseInsensitive ==
    fn = "page_count" =>
        \A e2 \in CaseVariants(extension) : page_count(file_bytes, e2) = ret

\* A PDF of two pages was counted as 2 under the extension .PdF.
C3_Witness ==
    /\ fn = "page_count"
    /\ extension = <<".", "P", "d", "F">>
    /\ file_bytes.parsed.kind = "pdf"
    /\ file_bytes.parsed.pages = 2
    /\ ret = RetInt(2)

\* C7: estimate_docx_a4_pages returns max(1, ceiling(max(1, H) / P) + B) for
\* the accumulated height H, the printable height P and the explicit-break
\* counter B; a document whose only content is one manual page break is
\* estimated at 2 pages or more.
C7_DocxTotal ==
    (fn = "estimate_docx_a4_pages" /\ ret.kind = "int") =>
        LET doc == file_bytes.parsed
            H == TotalHeight(doc)
            P == PrintableHeight(doc.section)
            B == ExplicitPageBreaks(doc)
        IN  /\ \E k \in {ret.val - B} :
                   /\ IsCeiling(k, IF H >= 100 THEN H ELSE 100, P)
                   /\ ret.val = IF k + B >= 1 THEN k + B ELSE 1
            /\ (/\ Len(doc.paragraphs) = 1
                /\ doc.paragraphs[1].breaks = 1
                /\ doc.paragraphs[1].body = 0
                /\ doc.tables = <<>>
                /\ doc.inline_shapes = <<>>)
               => ret.val >= 2

\* A document holding one paragraph with one manual page break and no text,
\* and an A4 section, was estimated at 2 pages.
C7_Witness ==
    /\ fn = "estimate_docx_a4_pages"
    /\ file_bytes.parsed.section = A4Section
    /\ Len(file_bytes.parsed.paragraphs) = 1
    /\ file_bytes.parsed.paragraphs[1].breaks = 1
    /\ file_bytes.parsed.paragraphs[1].body = 0
    /\ file_bytes.parsed.tables = <<>>
    /\ file_bytes.parsed.inline_shapes = <<>>
    /\ ret = RetInt(2)

\* Reading a sub-element of the document fails: the XML of a paragraph, or
\* the geometry, the header or the footer of the section.
HasLocalFailure(doc) ==
    \/ \E i \in 1..Len(doc.paragraphs) : ~doc.paragraphs[i].readable
    \/ (doc.section.present /\ ~doc.section.readable)
    \/ (doc.section.present /\ "raises" \in {doc.section.header, doc.section.footer})

\* C9: a localized failure does not abort the DOCX estimate: the failing
\* element is skipped or defaulted, estimate_docx_a4_pages still returns an
\* integer >= 1, and page_count does not return unknown for the document.
C9_LocalFailureTolerated ==
    (/\ fn \in {"estimate_docx_a4_pages", "page_count"}
     /\ fn = "page_count" => extension = EXT_DOCX
     /\ file_bytes.parsed.kind = "docx"
     /\ HasLocalFailure(file_bytes.parsed))
    => (ret.kind = "int" /\ ret.val >= 1)

\* The manual page-break markers of the paragraphs of a document.
RECURSIVE TotalMarkers(_)
TotalMarkers(paragraphs) ==
    IF paragraphs = <<>> THEN 0
    ELSE Head(paragraphs).breaks + TotalMarkers(Tail(paragraphs))

\* C10: each manual page break forces exactly one additional page: the
\* explicit-break count added to the final tally is the number of manual
\* page-break markers of the paragraphs, also when one paragraph holds
\* several markers and when its text is empty.
C10_OnePagePerMarker ==
    (fn = "estimate_docx_a4_pages" /\ ret.kind = "int") =>
        LET doc == file_bytes.parsed
            H == TotalHeight(doc)
            P == PrintableHeight(doc.section)
            M == TotalMarkers(doc.paragraphs)
        IN  \E k \in {ret.val - M} :
                /\ IsCeiling(k, IF H >= 100 THEN H ELSE 100, P)
                /\ ret.val = IF k + M >= 1 THEN k + M ELSE 1

\* The files of the run whose upload did not fail.
UploadedFiles == {uploaded_names[i] : i \in 1..Len(uploaded_names)}

\* C8: in one Translate run page_count is invoked exactly once for each file
\* that was uploaded, every invocation completes before the translation job
\* is started, and an unknown result does not stop the run: the metadata
\* record is written and the job is submitted.
C8_OncePerUploadedFile ==
    job = "started" =>
        /\ \A i \in UploadedFiles :
               Cardinality({k \in 1..Len(calls) : calls[k].file = i}) = 1
        /\ table_client => Len(table) = Len(calls)

\* The page height and margins of the first section can be read: there is a
\* section, reading it does not raise, and each of the three is declared.
GeometryAvailable(section) ==
    /\ section.present
    /\ section.readable
    /\ section.page_height.t # "none"
    /\ section.top_margin.t # "none"
    /\ section.bottom_margin.t # "none"

\* The printable height C11 states, in cpt (a Length of n EMU is n / 12700
\* points): page height minus both margins of the first section when its
\* geometry is available, else 842 - 2 * 72 = 698 points.
ClaimedPrintableHeight(section) ==
    IF GeometryAvailable(section)
    THEN (section.page_height.n * 100) \div 12700
         - ((section.top_margin.n * 100) \div 12700
            + (section.bottom_margin.n * 100) \div 12700)
    ELSE 69800

\* C11: the DOCX printable height is page height minus (top margin + bottom
\* margin) of the first section whenever that section is available, and the
\* default 698 points only when the geometry is not available (no section,
\* or its page height or margins cannot be read); the estimate is the one
\* that printable height gives.
C11_PrintableHeightFromSection ==
    (fn = "estimate_docx_a4_pages" /\ ret.kind = "int") =>
        LET doc == file_bytes.parsed
            H == TotalHeight(doc)
            P == ClaimedPrintableHeight(doc.section)
            B == ExplicitPageBreaks(doc)
        IN  /\ PrintableHeight(doc.section) = P
            /\ \E k \in {ret.val - B} :
                   /\ IsCeiling(k, IF H >= 100 THEN H ELSE 100, P)
                   /\ ret.val = IF k + B >= 1 THEN k + B ELSE 1

\* The height C12 states for one paragraph, in cpt, with L = 12 * 1.2 points
\* = 1440 cpt: L when the stripped text is empty, else ceiling(k / 80) * L
\* plus 0.3 * L = 432 cpt for its k characters.
ClaimedParagraphHeight(para) ==
    IF para.body = 0 THEN 1440
    ELSE (CHOOSE w \in 1..para.body : IsCeiling(w, para.body, 80)) * 1440 + 432

RECURSIVE ClaimedParagraphsHeight(_)
ClaimedParagraphsHeight(paragraphs) ==
    IF paragraphs = <<>> THEN 0
    ELSE ClaimedParagraphHeight(Head(paragraphs))
         + ClaimedParagraphsHeight(Tail(paragraphs))

\* C12: with L = 12 * 1.2 points, a paragraph whose text is empty or
\* whitespace-only adds exactly L to the accumulated height, a paragraph with
\* k >= 1 characters of stripped text adds ceiling(k / 80) * L + 0.3 * L, and
\* no paragraph adds anything else; the estimate is the one these heights give.
C12_ParagraphHeights ==
    (fn = "estimate_docx_a4_pages" /\ ret.kind = "int") =>
        LET doc == file_bytes.parsed
            paras == ClaimedParagraphsHeight(doc.paragraphs)
            H == paras + TablesHeight(doc.tables) + ImagesHeight(doc.inline_shapes)
                 + HeaderFooterHeight(doc.section)
            P == PrintableHeight(doc.section)
            B == ExplicitPageBreaks(doc)
        IN  /\ ParagraphLoop(doc.paragraphs,
                             [total_height_pt |-> 0, explicit_page_breaks |-> 0,
                              raised |-> FALSE]).total_height_pt = paras
            /\ TotalHeight(doc) = H
            /\ \E k \in {ret.val - B} :
                   /\ IsCeiling(k, IF H >= 100 THEN H ELSE 100, P)
                   /\ ret.val = IF k + B >= 1 THEN k + B ELSE 1

\* A document of a whitespace-only paragraph (14.4pt) and a paragraph of 81
\* characters (2 lines and the spacing, 33.12pt) was estimated at 1 page.
C12_Witness ==
    /\ fn = "estimate_docx_a4_pages"
    /\ file_bytes.parsed.section = A4Section
    /\ Len(file_bytes.parsed.paragraphs) = 2
    /\ file_bytes.parsed.paragraphs[1].body = 0
    /\ file_bytes.parsed.paragraphs[1].padded
    /\ file_bytes.parsed.paragraphs[2].body = 81
    /\ file_bytes.parsed.paragraphs[2].padded
    /\ TotalHeight(file_bytes.parsed) = 1440 + 2 * 1440 + 432
    /\ ret = RetInt(1)

============================================================================
